---- MODULE Spec2Model ----
(***************************************************************************)
(* A model of OpenInsiderScraper (src/openinsider_scraper.py): the         *)
(* scheduler/aggregator scrape(), the unit worker _get_data_for_month,     *)
(* the retried fetch _fetch_data, the cache files, the row parser and the  *)
(* filter predicate _apply_filters.                                        *)
(*                                                                         *)
(* Text is a sequence of tokens; the token " " is whitespace, so that      *)
(* str.strip() is a real operation.  A record is the 13-tuple of its       *)
(* field texts.  Time is in seconds.                                       *)
(***************************************************************************)
EXTENDS Integers, Sequences, FiniteSets, TLC

\* ------------------------------------------------------------------ bounds
\* the clock advances by at most this many steps during a run
MaxTicks == 1
\* config.max_workers ranges over 1..MaxWorkersCfg
MaxWorkersCfg == 2
\* the enumeration is checked for starts up to this many years back
EnumYearsBack == 2

\* ------------------------------------------------------- program constants
\* a retry decorator that gives up one try earlier
RetryTriesShort == 1 + 1
\* @retry(tries=3, delay=2, backoff=2)
RetryTries == 3
RetryDelay == 2
RetryBackoff == 2
\* cache_max_age * 3600
SecondsPerHour == 3600
\* config.cache_max_age, hours
CacheMaxAge == 1
\* the 13 fixed fields of a row
NumFields == 13

FieldNames ==
  << "X", "filing_date", "trade_date", "ticker", "company_name", "owner_name",
     "Title", "transaction_type", "purchase_price", "Qty", "shares_held",
     "% change", "Value" >>

\* --------------------------------------------------------------- the clock
\* the wall clock when the run starts, and the step by which it advances
Now0 == 7200
TickStep == 1800
\* datetime.now().year, datetime.now().month
CurrentYear == 2024
CurrentMonth == 1

\* ------------------------------------------------------------ text helpers
WS == " "

RECURSIVE LStrip(_)
LStrip(t) == IF t # <<>> /\ Head(t) = WS THEN LStrip(Tail(t)) ELSE t

RECURSIVE RStrip(_)
RStrip(t) ==
  IF t # <<>> /\ t[Len(t)] = WS THEN RStrip(SubSeq(t, 1, Len(t) - 1)) ELSE t

\* str.strip()
Strip(t) == RStrip(LStrip(t))

\* a parser that keeps the cell text of a cell without a link as it is
CellValueUnstripped(c) == IF c.a THEN Strip(c.atext) ELSE c.text

\* cols[index].find('a').text.strip() if cols[index].find('a')
\*   else cols[index].text.strip()
CellValue(c) == IF c.a THEN Strip(c.atext) ELSE Strip(c.text)

\* a table cell without an anchor, and one whose value sits inside a link
Plain(t) == [a |-> FALSE, atext |-> <<>>, text |-> t]
Linked(pre, t) == [a |-> TRUE, atext |-> t, text |-> pre \o t]

\* ------------------------------------------------------------ the response
\* one table row of the upstream page: 13 cells in the fixed field order.
\* The ticker cell carries the given cell; every other cell is plain text.
RowOf(tickerCell, ttype) ==
  << Plain(<<"D">>), Plain(<<"2024-01-02">>), Plain(<<"2024-01-01">>),
     tickerCell, Plain(<<"Corp">>), Plain(<<"Owner">>), Plain(<<"CEO">>),
     Plain(<<ttype>>), Plain(<<"$1.00">>), Plain(<<"+100">>), Plain(<<"100">>),
     Plain(<<"New">>), Plain(<<"+$100">>) >>

RowS == RowOf(Linked(<<"x", WS>>, <<"S">>), "P")
RowA == RowOf(Plain(<<WS, "A", WS>>), "P")
RowB == RowOf(Plain(<<"B">>), "S")
\* the row of S as a month renders it without the link
RowSPlain == RowOf(Plain(<<WS, "S">>), "P")
\* a <tr> with fewer <td> than fields, and a <tr> with none (a header row)
RowShort == SubSeq(RowA, 1, 5)
RowEmpty == <<>>

\* requests.Response: the status code and the parsed shape of response.text
Page(status, table, tbody, rows) ==
  [status |-> status, table |-> table, tbody |-> tbody, rows |-> rows]

Responses ==
  << Page(200, TRUE, TRUE, <<RowEmpty, RowS, RowA>>),
     Page(200, TRUE, TRUE, <<RowSPlain, RowB>>),
     Page(500, FALSE, FALSE, <<>>),
     Page(200, TRUE, TRUE, <<RowA, RowShort>>) >>

\* ------------------------------------------------------------- the filters
\* x in list
InList(x, list) == \E i \in 1..Len(list) : list[i] = x

FilterChoices ==
  { [transaction_types |-> <<>>, exclude_companies |-> <<>>,
     include_companies |-> <<>>],
    [transaction_types |-> << <<"P">> >>, exclude_companies |-> << <<"A">> >>,
     include_companies |-> <<>>] }

\* a filter without the exclusion list
_apply_filters_no_exclusion(cfg, data) ==
  IF cfg.transaction_types # <<>>
       /\ ~InList(data["transaction_type"], cfg.transaction_types)
  THEN FALSE
  ELSE IF cfg.include_companies # <<>>
            /\ ~InList(data["ticker"], cfg.include_companies)
  THEN FALSE
  ELSE TRUE

\* a filter in which the inclusion list is looked at first and wins
_apply_filters_include_first(cfg, data) ==
  IF cfg.transaction_types # <<>>
       /\ ~InList(data["transaction_type"], cfg.transaction_types)
  THEN FALSE
  ELSE IF cfg.include_companies # <<>>
  THEN InList(data["ticker"], cfg.include_companies)
  ELSE ~InList(data["ticker"], cfg.exclude_companies)

\* OpenInsiderScraper._apply_filters: every key it reads is present in the
\* dict built by the parser, so the except branch is never taken
_apply_filters(cfg, data) ==
  IF cfg.transaction_types # <<>>
       /\ ~InList(data["transaction_type"], cfg.transaction_types)
  THEN FALSE
  ELSE IF InList(data["ticker"], cfg.exclude_companies)
  THEN FALSE
  ELSE IF cfg.include_companies # <<>>
            /\ ~InList(data["ticker"], cfg.include_companies)
  THEN FALSE
  ELSE TRUE

\* --------------------------------------------------------------- the parser
FieldIndex(key) == CHOOSE i \in 1..NumFields : FieldNames[i] = key

\* the dict comprehension of one row: key -> text of cols[index]
InsiderData(cols) ==
  [key \in {FieldNames[i] : i \in 1..NumFields} |-> CellValue(cols[FieldIndex(key)])]

\* tuple(insider_data.values()): the values in insertion (field) order
TupleOf(data) == [i \in 1..NumFields |-> data[FieldNames[i]]]

\* a row loop that skips a row with too few cells
RECURSIVE ParseRowsSkipShort(_, _, _)
ParseRowsSkipShort(cfg, rows, data) ==
  IF rows = <<>> THEN [err |-> FALSE, data |-> data]
  ELSE LET cols == Head(rows) IN
       IF Len(cols) < NumFields THEN ParseRowsSkipShort(cfg, Tail(rows), data)
       ELSE LET d == InsiderData(cols) IN
            ParseRowsSkipShort(cfg, Tail(rows),
                               IF _apply_filters(cfg, d) THEN data \cup {TupleOf(d)}
                               ELSE data)

\* the loop over rows (lines 138-150): the set built so far, or the
\* IndexError of a row that has cells but fewer than 13
RECURSIVE ParseRows(_, _, _)
ParseRows(cfg, rows, data) ==
  IF rows = <<>> THEN [err |-> FALSE, data |-> data]
  ELSE LET cols == Head(rows) IN
       IF cols = <<>> THEN ParseRows(cfg, Tail(rows), data)
       ELSE IF Len(cols) < NumFields THEN [err |-> TRUE, data |-> {}]
       ELSE LET d == InsiderData(cols) IN
            ParseRows(cfg, Tail(rows),
                      IF _apply_filters(cfg, d) THEN data \cup {TupleOf(d)}
                      ELSE data)

\* lines 129-150 on one response: "notable" (line 131), "exception" (no tbody:
\* None.findAll; or a short row) or "ok" with the filtered record set
ParsePage(cfg, resp) ==
  IF ~resp.table THEN [kind |-> "notable", data |-> {}]
  ELSE IF ~resp.tbody THEN [kind |-> "exception", data |-> {}]
  ELSE LET r == ParseRows(cfg, resp.rows, {}) IN
       IF r.err THEN [kind |-> "exception", data |-> {}]
       ELSE [kind |-> "ok", data |-> r.data]

\* ---------------------------------------------------------- the cache files
\* iterating a set: some fixed order of its elements
RECURSIVE SetToSeq(_)
SetToSeq(S) ==
  IF S = {} THEN <<>>
  ELSE LET x == CHOOSE y \in S : TRUE IN <<x>> \o SetToSeq(S \ {x})

\* json.dump([list(x) for x in data], f)
JsonDump(data) == SetToSeq(data)
\* set(tuple(x) for x in json.load(f))
JsonLoad(content) == {content[i] : i \in 1..Len(content)}

\* one cache file for every unit
_get_cache_path_shared(year, month) == <<"data">>

\* OpenInsiderScraper._get_cache_path: the file name of a unit
_get_cache_path(year, month) == <<"data", year, month>>

NoFile == [exists |-> FALSE, mtime |-> 0, corrupt |-> FALSE, content |-> <<>>]
File(mtime, corrupt, content) ==
  [exists |-> TRUE, mtime |-> mtime, corrupt |-> corrupt, content |-> content]

\* a freshness test with the comparison turned round
_is_cache_valid_flipped(cfg, file, clock) ==
  IF ~file.exists THEN FALSE
  ELSE (clock - file.mtime) > cfg.cache_max_age * SecondsPerHour

\* OpenInsiderScraper._is_cache_valid
_is_cache_valid(cfg, file, clock) ==
  IF ~file.exists THEN FALSE
  ELSE (clock - file.mtime) < cfg.cache_max_age * SecondsPerHour

\* ------------------------------------------------------------ configuration
\* the configured (start_year, start_month) choices
StartChoices == { <<2023, 12>>, <<2024, 1>> }
\* the configured retry_attempts choices
RetryCfgChoices == { RetryTries + 1 }

Configs ==
  { [cache_enabled |-> ce, cache_max_age |-> age, max_workers |-> mw,
     retry_attempts |-> ra, start_year |-> st[1], start_month |-> st[2],
     transaction_types |-> f.transaction_types,
     exclude_companies |-> f.exclude_companies,
     include_companies |-> f.include_companies] :
    ce \in BOOLEAN, age \in {CacheMaxAge}, mw \in 1..MaxWorkersCfg,
    ra \in RetryCfgChoices, st \in StartChoices, f \in FilterChoices }

\* --------------------------------------------------------- unit enumeration
\* a month loop that starts every year at the configured start month
MonthsOfEveryYear(cfg, year) ==
  LET start_month == cfg.start_month
      end_month == IF year = CurrentYear THEN CurrentMonth ELSE 12
      n == IF end_month >= start_month THEN end_month - start_month + 1 ELSE 0
  IN [i \in 1..n |-> <<year, start_month + i - 1>>]

\* the inner loop of scrape() for one year (lines 212-216)
MonthsOf(cfg, year) ==
  LET start_month == IF year # cfg.start_year THEN 1 ELSE cfg.start_month
      end_month == IF year = CurrentYear THEN CurrentMonth ELSE 12
      n == IF end_month >= start_month THEN end_month - start_month + 1 ELSE 0
  IN [i \in 1..n |-> <<year, start_month + i - 1>>]

\* the outer loop of scrape() (line 211): range(start_year, current_year + 1)
RECURSIVE UnitsFrom(_, _)
UnitsFrom(cfg, year) ==
  IF year > CurrentYear THEN <<>>
  ELSE MonthsOf(cfg, year) \o UnitsFrom(cfg, year + 1)

EnumerateUnits(cfg) == UnitsFrom(cfg, cfg.start_year)

SeqRange(s) == {s[i] : i \in 1..Len(s)}

\* every unit some configuration enumerates
UnitUniverse == UNION {SeqRange(EnumerateUnits(c)) : c \in Configs}
Paths == {_get_cache_path(u[1], u[2]) : u \in UnitUniverse}

\* ------------------------------------------------------------------- state
VARIABLES
  config,     \* self.config, fixed by _load_config
  now,        \* the last reading of the wall clock, seconds
  cache,      \* the cache directory: path -> file
  futures,    \* the futures list of scrape(), in submission order
  unit,       \* per unit: the state of its worker and of its future
  all_data,   \* the list all_data of scrape()
  mainpc,     \* where scrape() is: "start", "collecting", "saved", "aborted"
  saved,      \* the arguments _save_data has been called with, in order
  log         \* the error messages logged: <<kind, unit>>

vars == <<config, now, cache, futures, unit, all_data, mainpc, saved, log>>

NoSeen == [checked |-> FALSE, file |-> NoFile, clock |-> 0]

NewUnit ==
  [pc |-> "new", outcome |-> "none", result |-> {}, tries |-> 0, delay |-> 0,
   attempts |-> 0, resp |-> 0, seen |-> NoSeen,
   collected |-> FALSE]

\* a record set left in the cache by an earlier run
OldData == { TupleOf(InsiderData(RowS)), TupleOf(InsiderData(RowB)) }

\* what an earlier run (or a crash) may have left under one path
InitFiles ==
  { NoFile,
    File(Now0 - TickStep, FALSE, JsonDump(OldData)),
    File(Now0 - 2 * TickStep, FALSE, JsonDump(OldData)),
    File(Now0 - TickStep, TRUE, <<>>) }

Init ==
  /\ config \in Configs
  /\ now = Now0
  /\ cache \in [Paths -> InitFiles]
  /\ futures = <<>>
  /\ unit = [u \in UnitUniverse |-> NewUnit]
  /\ all_data = <<>>
  /\ mainpc = "start"
  /\ saved = <<>>
  /\ log = {}

\* ----------------------------------------------------------------- actions
\* the wall clock is seen only when it is read: a reading is the last
\* reading or later
ClockReadings == {t \in {Now0 + k * TickStep : k \in 0..MaxTicks} : t >= now}

\* the page the upstream holds for a month, and what a request for the month
\* may be answered with: that page, the error page or the malformed page
UpstreamPage(u) == IF u[2] % 2 = 0 THEN 1 ELSE 2
AnswersFor(u) == {UpstreamPage(u), 3, 4}

\* scrape(), lines 197-216: enumerate the units and submit one future each
Submit ==
  /\ mainpc = "start"
  /\ futures' = EnumerateUnits(config)
  /\ unit' = [u \in DOMAIN unit |->
                IF u \in SeqRange(EnumerateUnits(config))
                THEN [unit[u] EXCEPT !.pc = "pending"] ELSE unit[u]]
  /\ mainpc' = "collecting"
  /\ UNCHANGED <<config, now, cache, all_data, saved, log>>

\* the units a pool thread is working on
Running == {u \in DOMAIN unit : unit[u].pc = "fetching"}

\* a pool that starts a thread for every submitted unit
PoolUnbounded == TRUE

\* ThreadPoolExecutor(max_workers=...): a thread is free to take a unit
PoolHasFreeThread == Cardinality(Running) < config.max_workers

\* the pool's work queue is FIFO: the next unit a free thread takes
IsNextPending(u) ==
  \E i \in 1..Len(futures) :
    /\ futures[i] = u
    /\ unit[u].pc = "pending"
    /\ \A j \in 1..(i - 1) : unit[futures[j]].pc # "pending"

\* the future of u ends: with a return value, or with an exception
Returned(w, data) == [w EXCEPT !.pc = "done", !.outcome = "returned", !.result = data]
Raised(w) == [w EXCEPT !.pc = "done", !.outcome = "raised"]

\* _get_data_for_month, lines 114-125: a pool thread takes the unit, checks
\* the cache and either answers from it or goes on to fetch
CacheCheck(u) ==
  /\ mainpc = "collecting"
  /\ IsNextPending(u)
  /\ PoolHasFreeThread
  /\ \E t \in ClockReadings :
       LET path == _get_cache_path(u[1], u[2])
           file == cache[path]
           w == [unit[u] EXCEPT !.seen = [checked |-> TRUE, file |-> file, clock |-> t]]
       IN /\ now' = t
          /\ IF config.cache_enabled /\ _is_cache_valid(config, file, t)
             THEN \* lines 118-119, outside the try: json.load may raise
                  unit' = [unit EXCEPT ![u] =
                             IF file.corrupt THEN Raised(w)
                             ELSE Returned(w, JsonLoad(file.content))]
             ELSE IF u[2] \notin 1..12
             THEN \* datetime(year, month, 1) raises ValueError, outside the try
                  unit' = [unit EXCEPT ![u] = Raised(w)]
             ELSE unit' = [unit EXCEPT ![u] =
                             [w EXCEPT !.pc = "fetching", !.tries = RetryTries,
                                       !.delay = RetryDelay]]
  /\ UNCHANGED <<config, cache, futures, all_data, mainpc, saved, log>>

\* a cache write that never happens
SaveCacheSkipped(cfg, file, data, clock) == file

\* lines 152-155: the cache file of the unit after the parse
SaveCache(cfg, file, data, clock) ==
  IF cfg.cache_enabled THEN File(clock, FALSE, JsonDump(data)) ELSE file

\* a worker that writes the cache file whatever the parse gave
AfterFetchCachesFailure(u, w, r) ==
  LET page == ParsePage(config, Responses[r])
      w2 == [w EXCEPT !.resp = r]
      path == _get_cache_path(u[1], u[2])
  IN \E t \in ClockReadings :
       /\ now' = IF config.cache_enabled THEN t ELSE now
       /\ cache' = [cache EXCEPT ![path] = SaveCache(config, @, page.data, t)]
       /\ unit' = [unit EXCEPT ![u] = Returned(w2, page.data)]
       /\ log' = IF page.kind = "ok" THEN log
                 ELSE log \cup {<<IF page.kind = "notable" THEN "NoTable"
                                   ELSE "ParseFailed", u>>}

\* lines 129-161 once _fetch_data has returned response number r
AfterFetch(u, w, r) ==
  LET page == ParsePage(config, Responses[r])
      w2 == [w EXCEPT !.resp = r]
      path == _get_cache_path(u[1], u[2])
  IN CASE page.kind = "notable" ->
            /\ log' = log \cup {<<"NoTable", u>>}
            /\ unit' = [unit EXCEPT ![u] = Returned(w2, {})]
            /\ UNCHANGED <<cache, now>>
       [] page.kind = "exception" ->
            /\ log' = log \cup {<<"ParseFailed", u>>}
            /\ unit' = [unit EXCEPT ![u] = Returned(w2, {})]
            /\ UNCHANGED <<cache, now>>
       [] OTHER ->
            \E t \in ClockReadings :
              /\ now' = IF config.cache_enabled THEN t ELSE now
              /\ cache' = [cache EXCEPT ![path] = SaveCache(config, @, page.data, t)]
              /\ unit' = [unit EXCEPT ![u] = Returned(w2, page.data)]
              /\ UNCHANGED log

\* a worker without the except clause of line 159: the exhausted fetch
\* ends the future with the exception
FetchRaisesUncaught(u, w) ==
  IF w.tries - 1 = 0
  THEN /\ unit' = [unit EXCEPT ![u] = Raised([w EXCEPT !.tries = 0])]
       /\ UNCHANGED <<cache, log, now>>
  ELSE /\ unit' = [unit EXCEPT ![u] =
                     [w EXCEPT !.tries = @ - 1, !.delay = @ * RetryBackoff]]
       /\ UNCHANGED <<cache, log, now>>

\* requests.get raised (timeout, connection error): the retry decorator
\* counts the try down and either re-raises or sleeps and doubles the delay
FetchRaises(u, w) ==
  IF w.tries - 1 = 0
  THEN \* the retries are exhausted: the exception reaches line 159
       /\ log' = log \cup {<<"FetchFailed", u>>}
       /\ unit' = [unit EXCEPT ![u] = Returned([w EXCEPT !.tries = 0], {})]
       /\ UNCHANGED <<cache, now>>
  ELSE \* sleep(delay); delay *= backoff
       /\ unit' = [unit EXCEPT ![u] =
                     [w EXCEPT !.tries = @ - 1, !.delay = @ * RetryBackoff]]
       /\ UNCHANGED <<cache, log, now>>

\* one requests.get of _fetch_data under @retry (lines 101-103): it raises,
\* or it returns a response and the rest of _get_data_for_month runs
FetchAttempt(u) ==
  /\ unit[u].pc = "fetching"
  /\ LET w == [unit[u] EXCEPT !.attempts = @ + 1]
     IN \/ FetchRaises(u, w)
        \/ \E r \in AnswersFor(u) : AfterFetch(u, w, r)
  /\ UNCHANGED <<config, futures, all_data, mainpc, saved>>

\* a collector that assigns where line 222 extends
CollectOverwrite(u) ==
  /\ mainpc = "collecting"
  /\ unit[u].pc = "done"
  /\ ~unit[u].collected
  /\ unit' = [unit EXCEPT ![u].collected = TRUE]
  /\ IF unit[u].outcome = "returned"
     THEN /\ all_data' = SetToSeq(unit[u].result)
          /\ UNCHANGED log
     ELSE /\ log' = log \cup {<<"ProcessingError", u>>}
          /\ UNCHANGED all_data
  /\ UNCHANGED <<config, now, cache, futures, mainpc, saved>>

\* one iteration of the as_completed loop, lines 219-225
Collect(u) ==
  /\ mainpc = "collecting"
  /\ unit[u].pc = "done"
  /\ ~unit[u].collected
  /\ unit' = [unit EXCEPT ![u].collected = TRUE]
  /\ IF unit[u].outcome = "returned"
     THEN /\ all_data' = all_data \o SetToSeq(unit[u].result)
          /\ UNCHANGED log
     ELSE /\ log' = log \cup {<<"ProcessingError", u>>}
          /\ UNCHANGED all_data
  /\ UNCHANGED <<config, now, cache, futures, mainpc, saved>>

\* a hand-over that does not wait for the as_completed loop to end
SaveEarly ==
  /\ mainpc = "collecting"
  /\ saved' = Append(saved, all_data)
  /\ mainpc' = "saved"
  /\ UNCHANGED <<config, now, cache, futures, unit, all_data, log>>

\* lines 227-228: every future has been collected; hand over to _save_data
Save ==
  /\ mainpc = "collecting"
  /\ \A i \in 1..Len(futures) : unit[futures[i]].collected
  /\ saved' = Append(saved, all_data)
  /\ mainpc' = "saved"
  /\ UNCHANGED <<config, now, cache, futures, unit, all_data, log>>

Next ==
  \/ Submit
  \/ \E u \in DOMAIN unit : CacheCheck(u)
  \/ \E u \in DOMAIN unit : FetchAttempt(u)
  \/ \E u \in DOMAIN unit : Collect(u)
  \/ Save

Spec == Init /\ [][Next]_vars

\* the runs without filters, for the progress properties: the pool threads
\* and the main thread keep being scheduled
FairInit == Init /\ config.transaction_types = <<>>

FairSpec ==
  /\ FairInit
  /\ [][Next]_vars
  /\ WF_vars(Submit)
  /\ \A u \in UnitUniverse : WF_vars(CacheCheck(u))
  /\ \A u \in UnitUniverse : WF_vars(FetchAttempt(u))
  /\ \A u \in UnitUniverse : WF_vars(Collect(u))
  /\ WF_vars(Save)

\* ------------------------------------------------- the enumeration alone
\* every start (year, month) of the last years, valid months only; a start
\* may lie after the current month
EnumConfigs ==
  { [cache_enabled |-> ce, cache_max_age |-> CacheMaxAge, max_workers |-> mw,
     retry_attempts |-> RetryTries, start_year |-> y, start_month |-> m,
     transaction_types |-> <<>>, exclude_companies |-> <<>>,
     include_companies |-> <<>>] :
    ce \in BOOLEAN, mw \in 1..MaxWorkersCfg,
    y \in (CurrentYear - EnumYearsBack)..CurrentYear, m \in 1..12 }

EnumUniverse == UNION {SeqRange(EnumerateUnits(c)) : c \in EnumConfigs}

EnumInit ==
  /\ config \in EnumConfigs
  /\ now = Now0
  /\ cache = [p \in {_get_cache_path(u[1], u[2]) : u \in EnumUniverse} |-> NoFile]
  /\ futures = <<>>
  /\ unit = [u \in EnumUniverse |-> NewUnit]
  /\ all_data = <<>>
  /\ mainpc = "start"
  /\ saved = <<>>
  /\ log = {}

\* scrape() up to the last submit
EnumNext == Submit

SpecEnum == EnumInit /\ [][EnumNext]_vars

\* ------------------------------------------------- invalid date ranges
\* starts after the current month, start months outside 1..12, and one
\* valid start
RangeStarts ==
  { <<CurrentYear, CurrentMonth>>, <<CurrentYear, CurrentMonth + 1>>,
    <<CurrentYear + 1, 1>>, <<CurrentYear, 0>>, <<CurrentYear, 13>>,
    <<CurrentYear - 1, 13>> }

RangeConfigs ==
  { [cache_enabled |-> ce, cache_max_age |-> CacheMaxAge, max_workers |-> mw,
     retry_attempts |-> RetryTries, start_year |-> st[1], start_month |-> st[2],
     transaction_types |-> <<>>, exclude_companies |-> <<>>,
     include_companies |-> <<>>] :
    ce \in BOOLEAN, mw \in 1..MaxWorkersCfg, st \in RangeStarts }

RangeUniverse == UNION {SeqRange(EnumerateUnits(c)) : c \in RangeConfigs}

RangeInit ==
  /\ config \in RangeConfigs
  /\ now = Now0
  /\ cache \in [{_get_cache_path(u[1], u[2]) : u \in RangeUniverse} -> InitFiles]
  /\ futures = <<>>
  /\ unit = [u \in RangeUniverse |-> NewUnit]
  /\ all_data = <<>>
  /\ mainpc = "start"
  /\ saved = <<>>
  /\ log = {}

SpecRange == RangeInit /\ [][Next]_vars

\* ------------------------------------------------- the filters at large
\* the filter lists of a configuration: allow-list of types, exclusion list,
\* inclusion list
FilterTypeLists == { <<>>, << <<"P">> >>, << <<"S">> >> }
FilterExcludeLists == { <<>>, << <<"A">> >>, << <<"S">> >> }
FilterIncludeLists == { <<>>, << <<"S">> >>, << <<"A">>, <<"B">> >> }

FilterConfigs ==
  { [cache_enabled |-> FALSE, cache_max_age |-> CacheMaxAge, max_workers |-> 1,
     retry_attempts |-> RetryTries, start_year |-> st[1], start_month |-> st[2],
     transaction_types |-> ty, exclude_companies |-> ex,
     include_companies |-> inc] :
    st \in StartChoices, ty \in FilterTypeLists, ex \in FilterExcludeLists,
    inc \in FilterIncludeLists }

FilterInit ==
  /\ config \in FilterConfigs
  /\ now = Now0
  /\ cache = [p \in Paths |-> NoFile]
  /\ futures = <<>>
  /\ unit = [u \in UnitUniverse |-> NewUnit]
  /\ all_data = <<>>
  /\ mainpc = "start"
  /\ saved = <<>>
  /\ log = {}

SpecFilter == FilterInit /\ [][Next]_vars

\* ------------------------------------------------------------------ claims
Submitted == SeqRange(futures)
PathOf(u) == _get_cache_path(u[1], u[2])
RunSaved == mainpc = "saved" /\ Len(saved) = 1

\* what the worker of u found under its path when it checked the cache
AgeAtCheck(u) == unit[u].seen.clock - unit[u].seen.file.mtime
FoundAtCheck(u) == unit[u].seen.checked /\ unit[u].seen.file.exists
FreshAtCheck(u) ==
  FoundAtCheck(u) /\ AgeAtCheck(u) < config.cache_max_age * SecondsPerHour
StaleAtCheck(u) ==
  FoundAtCheck(u) /\ AgeAtCheck(u) >= config.cache_max_age * SecondsPerHour
ValidAtCheck(u) == FreshAtCheck(u) /\ ~unit[u].seen.file.corrupt
CachedSetAtCheck(u) ==
  {unit[u].seen.file.content[i] : i \in 1..Len(unit[u].seen.file.content)}

NoDuplicates(s) == \A i, j \in 1..Len(s) : i # j => s[i] # s[j]

\* C1: the aggregate handed to _save_data holds every distinct record at most
\* once (two units sharing one record and holding one unique record each give
\* 3 records, not 4).
C1_AggregateHasNoDuplicates ==
  \A k \in 1..Len(saved) : NoDuplicates(saved[k])

\* the aggregate of the run in which the futures complete in submission order
RECURSIVE InSubmissionOrder(_)
InSubmissionOrder(fs) ==
  IF fs = <<>> THEN <<>>
  ELSE (IF unit[Head(fs)].outcome = "returned"
        THEN SetToSeq(unit[Head(fs)].result) ELSE <<>>)
       \o InSubmissionOrder(Tail(fs))

\* C2: for fixed units and fixed per-unit record sets the aggregate handed to
\* _save_data is the same for every order of completion, so it is the one of
\* the run whose futures complete in submission order.
C2_AggregateIndependentOfCompletionOrder ==
  RunSaved => saved[1] = InSubmissionOrder(futures)

\* C3 as stated: a unit that found a valid (fresh, readable) cache entry when
\* it was processed never fetches and returns the cached record set.
C3_ValidEntryNeverFetched ==
  \A u \in UnitUniverse :
    ValidAtCheck(u) =>
      /\ unit[u].attempts = 0
      /\ unit[u].pc = "done"
      /\ unit[u].outcome = "returned"
      /\ unit[u].result = CachedSetAtCheck(u)

\* C3 amended: with caching enabled, a unit that found a valid (fresh,
\* readable) cache entry when it was processed never fetches and returns the
\* cached record set.
C3_EnabledValidEntryNeverFetched ==
  \A u \in UnitUniverse :
    (config.cache_enabled /\ ValidAtCheck(u)) =>
      /\ unit[u].attempts = 0
      /\ unit[u].pc = "done"
      /\ unit[u].outcome = "returned"
      /\ unit[u].result = CachedSetAtCheck(u)

C3_Witness ==
  \E u \in UnitUniverse :
    /\ config.cache_enabled
    /\ ValidAtCheck(u)
    /\ unit[u].pc = "done"
    /\ unit[u].result # {}

\* the stale entry of u has been replaced by an entry stamped during this
\* processing of u
Replaced(u) ==
  /\ cache[PathOf(u)].exists
  /\ cache[PathOf(u)].mtime >= unit[u].seen.clock
  /\ cache[PathOf(u)].mtime > unit[u].seen.file.mtime

\* the fetch of u returned a response and the parser accepted it
FetchedAndParsed(u) ==
  /\ unit[u].resp # 0
  /\ ParsePage(config, Responses[unit[u].resp]).kind = "ok"

\* C4 as stated: a stale entry is never returned; processing the unit fetches,
\* and once the unit is done the entry has been replaced by a fresh one.
C4_StaleEntryReplaced ==
  \A u \in UnitUniverse :
    StaleAtCheck(u) =>
      /\ unit[u].pc = "fetching" \/ unit[u].attempts >= 1
      /\ unit[u].pc = "done" => Replaced(u)

\* C4 amended: a stale entry is never returned and processing the unit
\* fetches; once the unit is done after a fetch that succeeded and parsed,
\* with caching enabled, the entry has been replaced by a new one that holds
\* the unit's result and a timestamp taken during this processing.
C4_StaleEntryReplacedOnSuccess ==
  \A u \in UnitUniverse :
    StaleAtCheck(u) =>
      /\ unit[u].pc = "fetching" \/ unit[u].attempts >= 1
      /\ (unit[u].pc = "done" /\ config.cache_enabled /\ FetchedAndParsed(u)) =>
           /\ Replaced(u)
           /\ ~cache[PathOf(u)].corrupt
           /\ {cache[PathOf(u)].content[i] :
                 i \in 1..Len(cache[PathOf(u)].content)} = unit[u].result

C4_Witness ==
  \E u \in UnitUniverse :
    /\ StaleAtCheck(u)
    /\ config.cache_enabled
    /\ unit[u].pc = "done"
    /\ FetchedAndParsed(u)
    /\ unit[u].result # {}
    /\ Replaced(u)

\* C5: a unit that finds a fresh but corrupt cache file treats it as a miss:
\* it fetches, and no cache error reaches the caller of _get_data_for_month.
C5_CorruptCacheIsMiss ==
  \A u \in UnitUniverse :
    (FreshAtCheck(u) /\ unit[u].seen.file.corrupt) =>
      /\ unit[u].outcome # "raised"
      /\ unit[u].pc = "fetching" \/ unit[u].attempts >= 1

\* every fetch attempt of u failed and the retries are used up
FetchExhausted(u) ==
  unit[u].pc = "done" /\ unit[u].attempts >= 1 /\ unit[u].resp = 0

\* C6: a unit whose every fetch attempt fails resolves to the empty record
\* set, and the aggregate handed to _save_data still holds the records of
\* every other unit.
C6_ExhaustedUnitIsEmptyOthersKept ==
  \A u \in UnitUniverse :
    FetchExhausted(u) =>
      /\ unit[u].outcome = "returned"
      /\ unit[u].result = {}
      /\ RunSaved =>
           \A v \in Submitted \ {u} :
             unit[v].outcome = "returned" => unit[v].result \subseteq SeqRange(saved[1])

C6_Witness ==
  \E u, v \in Submitted :
    /\ u # v
    /\ FetchExhausted(u)
    /\ RunSaved
    /\ unit[v].result # {}
    /\ unit[v].result \subseteq SeqRange(saved[1])

AllDone == \A u \in Submitted : unit[u].pc = "done"

\* a transport or parse error occurred while u was processed
HadFetchOrParseError(u) ==
  \/ FetchExhausted(u)
  \/ unit[u].resp # 0 /\ ParsePage(config, Responses[unit[u].resp]).kind # "ok"

\* C7: every enumerated unit eventually is done and the run reaches
\* _save_data, whatever transport or parse errors occur; a unit that went to
\* the network ends with a return value (records or the empty set), never
\* with an exception.
C7_EveryUnitDoneAndRunSaved ==
  /\ <>(RunSaved /\ Submitted = SeqRange(EnumerateUnits(config)) /\ AllDone)
  /\ [](\A u \in UnitUniverse :
          (unit[u].pc = "done" /\ unit[u].attempts >= 1) =>
             unit[u].outcome = "returned")

C7_Witness ==
  \E u, v \in Submitted :
    /\ u # v
    /\ HadFetchOrParseError(u)
    /\ unit[u].pc = "done"
    /\ unit[v].pc = "done" /\ unit[v].attempts >= 1 /\ unit[v].result # {}
    /\ RunSaved

\* C8: _save_data is called at most once, only when every enumerated unit
\* has reported and been collected, and nothing is merged after the call;
\* and the call is made.
C8_SavedOnceAfterAllReported ==
  /\ [](/\ Len(saved) <= 1
        /\ (mainpc = "saved") = (Len(saved) = 1)
        /\ Len(saved) = 1 =>
             /\ Submitted = SeqRange(EnumerateUnits(config))
             /\ \A u \in Submitted : unit[u].pc = "done" /\ unit[u].collected
             /\ saved[1] = all_data)
  /\ [][Len(saved) = 1 => (all_data' = all_data /\ saved' = saved)]_vars
  /\ <>(Len(saved) = 1)

C8_Witness ==
  /\ Len(saved) = 1
  /\ Len(futures) = 2
  /\ \E u, v \in Submitted : unit[u].outcome = "raised" /\ unit[v].result # {}

\* C9: a fetch whose transport keeps failing makes exactly
\* config.retry_attempts attempts before the terminal error, and no fetch
\* makes more attempts than that.
C9_AttemptsAreTheConfiguredNumber ==
  \A u \in UnitUniverse :
    /\ unit[u].attempts <= config.retry_attempts
    /\ FetchExhausted(u) => unit[u].attempts = config.retry_attempts

\* the number of attempts of u in which requests.get raised
Fails(u) == unit[u].attempts - (IF unit[u].resp # 0 THEN 1 ELSE 0)

\* C10: a unit whose transport failed twice is done only with the response of
\* a third attempt: it returns the records parsed from that body and logs no
\* exhausted fetch.
C10_SucceedsOnThirdAttempt ==
  \A u \in UnitUniverse :
    (unit[u].pc = "done" /\ Fails(u) = 2) =>
      /\ unit[u].attempts = 3
      /\ unit[u].resp # 0
      /\ unit[u].outcome = "returned"
      /\ unit[u].result = ParsePage(config, Responses[unit[u].resp]).data
      /\ <<"FetchFailed", u>> \notin log
      /\ (unit[u].resp \in {1, 2} /\ config.transaction_types = <<>>) =>
           Cardinality(unit[u].result) = 2

C10_Witness ==
  \E u \in UnitUniverse :
    /\ unit[u].pc = "done"
    /\ Fails(u) = 2
    /\ unit[u].resp = UpstreamPage(u)
    /\ Cardinality(unit[u].result) = 2
    /\ <<"FetchFailed", u>> \notin log

\* C11: a response with a non-success HTTP status is a transport error: it is
\* retried, so no unit ever takes such a response as the result of its fetch
\* (the unit degrades to the empty result only once the retries are used up).
C11_NonSuccessStatusIsRetried ==
  \A u \in DOMAIN unit :
    unit[u].resp # 0 =>
      \/ Responses[unit[u].resp].status = 200
      \/ unit[u].attempts = RetryTries

\* C13: at every moment at most config.max_workers units are being processed.
C13_RunningWithinPoolSize ==
  Cardinality({u \in DOMAIN unit : unit[u].pc = "fetching"}) <= config.max_workers

C13_Witness ==
  /\ Cardinality({u \in DOMAIN unit : unit[u].pc = "fetching"}) = config.max_workers
  /\ \E u \in DOMAIN unit : unit[u].pc = "pending"

\* months since year 0, to compare (year, month) pairs
MonthNumber(y, m) == y * 12 + m
StartNotAfterCurrent ==
  MonthNumber(config.start_year, config.start_month)
    <= MonthNumber(CurrentYear, CurrentMonth)
InConfiguredRange(y, m) ==
  /\ m \in 1..12
  /\ MonthNumber(config.start_year, config.start_month) <= MonthNumber(y, m)
  /\ MonthNumber(y, m) <= MonthNumber(CurrentYear, CurrentMonth)

\* C12: for a start not after the current month scrape() submits exactly one
\* unit for each (year, month) from the start through the current month:
\* none missing, none outside the range, none twice.
C12_OneUnitPerMonthOfRange ==
  (mainpc # "start" /\ StartNotAfterCurrent /\ config.start_month \in 1..12) =>
    /\ \A y \in (config.start_year - 1)..(CurrentYear + 1), m \in 0..13 :
         InConfiguredRange(y, m) <=> <<y, m>> \in SeqRange(futures)
    /\ \A i \in 1..Len(futures) : InConfiguredRange(futures[i][1], futures[i][2])
    /\ NoDuplicates(futures)
    /\ Len(futures) = MonthNumber(CurrentYear, CurrentMonth)
                        - MonthNumber(config.start_year, config.start_month) + 1
    /\ \A u \in DOMAIN unit : (unit[u].pc = "pending") <=> (u \in SeqRange(futures))

C12_Witness ==
  /\ mainpc = "collecting"
  /\ config.start_year < CurrentYear - 1
  /\ config.start_month > CurrentMonth
  /\ Len(futures) > 12

InvalidRange ==
  \/ config.start_month \notin 1..12
  \/ MonthNumber(config.start_year, config.start_month)
       > MonthNumber(CurrentYear, CurrentMonth)

\* C16: a run with an invalid configured date range ends as a failure: it
\* never completes normally, so _save_data is never called.
C16_InvalidRangeIsFatal ==
  InvalidRange => (mainpc # "saved" /\ Len(saved) = 0)

\* the record of a row of the upstream pages, field by field
RecOf(ticker, ttype) ==
  << <<"D">>, <<"2024-01-02">>, <<"2024-01-01">>, <<ticker>>, <<"Corp">>,
     <<"Owner">>, <<"CEO">>, <<ttype>>, <<"$1.00">>, <<"+100">>, <<"100">>,
     <<"New">>, <<"+$100">> >>

\* the records of the rows of upstream page r, before any filter
PageRecords(r) ==
  IF r = 1 THEN {RecOf("S", "P"), RecOf("A", "P")}
  ELSE IF r = 2 THEN {RecOf("S", "P"), RecOf("B", "S")}
  ELSE {}

\* the filter of the claims: ticker is field 4, transaction type is field 8
AcceptedRec(rec) ==
  /\ \/ config.transaction_types = <<>>
     \/ \E i \in 1..Len(config.transaction_types) : config.transaction_types[i] = rec[8]
  /\ ~\E i \in 1..Len(config.exclude_companies) : config.exclude_companies[i] = rec[4]
  /\ \/ config.include_companies = <<>>
     \/ \E i \in 1..Len(config.include_companies) : config.include_companies[i] = rec[4]

\* the cache entry of u was written during this run
WrittenThisRun(u) == cache[PathOf(u)].exists /\ cache[PathOf(u)].mtime >= Now0
CacheRecords(u) ==
  {cache[PathOf(u)].content[i] : i \in 1..Len(cache[PathOf(u)].content)}

\* C14 as stated: every record of a cache entry written during the run and
\* every record of the aggregate handed to _save_data passes the filter of the
\* run.
C14_OnlyAcceptedRecords ==
  /\ \A u \in DOMAIN unit :
       WrittenThisRun(u) => \A rec \in CacheRecords(u) : AcceptedRec(rec)
  /\ \A k \in 1..Len(saved) : \A i \in 1..Len(saved[k]) : AcceptedRec(saved[k][i])

\* C14 amended: every record of a cache entry written during the run and
\* every record of a fetched unit's result passes the filter of the run; a
\* record of the aggregate that does not pass it comes from a cache hit (an
\* entry written by an earlier run is returned without being filtered again).
C14_OnlyAcceptedRecordsFetched ==
  /\ \A u \in DOMAIN unit :
       /\ WrittenThisRun(u) => \A rec \in CacheRecords(u) : AcceptedRec(rec)
       /\ unit[u].attempts >= 1 => \A rec \in unit[u].result : AcceptedRec(rec)
  /\ \A k \in 1..Len(saved) : \A i \in 1..Len(saved[k]) :
       \/ AcceptedRec(saved[k][i])
       \/ \E u \in Submitted :
            /\ unit[u].attempts = 0
            /\ ValidAtCheck(u)
            /\ saved[k][i] \in CachedSetAtCheck(u)

C14_Witness ==
  \E u \in Submitted :
    /\ config.exclude_companies # <<>>
    /\ config.cache_enabled
    /\ unit[u].resp = 1
    /\ unit[u].result = {RecOf("S", "P")}
    /\ WrittenThisRun(u)
    /\ CacheRecords(u) = {RecOf("S", "P")}
    /\ RunSaved
    /\ RecOf("S", "P") \in SeqRange(saved[1])

\* C15: _apply_filters accepts a record exactly when (the type allow-list is
\* empty or holds its type) and its ticker is not excluded and (the inclusion
\* list is empty or holds its ticker): the result of a parsed page is the set
\* of its records that satisfy this; an excluded ticker is rejected even when
\* it is included.
C15_FilterAcceptsExactly ==
  \A u \in DOMAIN unit :
    (unit[u].pc = "done" /\ unit[u].resp \in {1, 2}) =>
      /\ unit[u].result = {rec \in PageRecords(unit[u].resp) : AcceptedRec(rec)}
      /\ \A rec \in PageRecords(unit[u].resp) :
           ((\E i \in 1..Len(config.exclude_companies) :
               config.exclude_companies[i] = rec[4])
            /\ (\E i \in 1..Len(config.include_companies) :
               config.include_companies[i] = rec[4]))
           => rec \notin unit[u].result

C15_Witness ==
  \E u \in Submitted :
    /\ config.exclude_companies = << <<"S">> >>
    /\ config.include_companies = << <<"S">> >>
    /\ config.transaction_types = <<>>
    /\ unit[u].pc = "done"
    /\ unit[u].resp = 1
    /\ RecOf("S", "P") \notin unit[u].result

\* the response has a table whose rows all have the 13 cells and no link
AnchorFreePage(r) ==
  /\ Responses[r].table /\ Responses[r].tbody
  /\ Responses[r].rows # <<>>
  /\ \A i \in 1..Len(Responses[r].rows) :
       /\ Len(Responses[r].rows[i]) = NumFields
       /\ \A j \in 1..NumFields : ~Responses[r].rows[i][j].a
RawTextOf(row) == [j \in 1..NumFields |-> row[j].text]
StrippedTextOf(row) == [j \in 1..NumFields |-> Strip(row[j].text)]
RowsOf(r) == {Responses[r].rows[i] : i \in 1..Len(Responses[r].rows)}

C17_OneWriterPerCacheKey ==
  /\ [](\A u, v \in DOMAIN unit : u # v => PathOf(u) # PathOf(v))
  /\ [][\A p \in DOMAIN cache :
          cache'[p] # cache[p] =>
            \E u \in Submitted :
              /\ PathOf(u) = p
              /\ unit[u].pc = "fetching" /\ unit'[u].pc = "done"
              /\ \A v \in DOMAIN unit : v # u => unit'[v] = unit[v]
              /\ \A q \in DOMAIN cache : q # p => cache'[q] = cache[q]]_vars
  /\ [][\A u \in DOMAIN unit : unit[u].pc = "done" => unit'[u].pc = "done"]_vars

C17_Witness ==
  /\ Len(futures) = 2
  /\ \A u \in Submitted : unit[u].pc = "done" /\ WrittenThisRun(u)

\* the response cannot be parsed: no data table, or a row with at least one
\* cell and fewer than the 13 fields
ParseErrorPage(r) ==
  \/ ~Responses[r].table
  \/ \E i \in 1..Len(Responses[r].rows) :
       Len(Responses[r].rows[i]) \in 1..(NumFields - 1)

\* C19: a unit whose response cannot be parsed is not fetched again and
\* returns the empty record set, with no record of any other row.
C19_ParseErrorEmptiesUnit ==
  /\ [](\A u \in DOMAIN unit :
          (unit[u].resp # 0 /\ ParseErrorPage(unit[u].resp)) =>
            /\ unit[u].pc = "done"
            /\ unit[u].outcome = "returned"
            /\ unit[u].result = {})
  /\ [][\A u \in DOMAIN unit :
          unit[u].resp # 0 =>
            /\ unit'[u].attempts = unit[u].attempts
            /\ unit'[u].resp = unit[u].resp
            /\ unit'[u].result = unit[u].result]_vars

C19_Witness ==
  \E u, v \in Submitted :
    /\ unit[u].resp = 4
    /\ ParseErrorPage(4)
    /\ config.transaction_types = <<>>
    /\ unit[u].result = {}
    /\ unit[v].result # {}
    /\ RunSaved

\* the unit ended in failure: retries used up, or a response that cannot be
\* parsed
UnitFailed(u) ==
  /\ unit[u].pc = "done"
  /\ \/ FetchExhausted(u)
     \/ unit[u].resp # 0 /\ ParseErrorPage(unit[u].resp)

\* C20: a unit that ends in failure leaves its cache file as it found it: none
\* is created, and an existing one keeps its content and its timestamp, so
\* an absent or stale file is not a valid entry at any later time.
C20_FailedUnitLeavesCache ==
  \A u \in DOMAIN unit :
    UnitFailed(u) =>
      /\ cache[PathOf(u)] = unit[u].seen.file
      /\ ~unit[u].seen.file.exists => ~cache[PathOf(u)].exists
      /\ ~WrittenThisRun(u)
      /\ (~FoundAtCheck(u) \/ StaleAtCheck(u)) =>
           \A t \in ClockReadings : ~_is_cache_valid(config, cache[PathOf(u)], t)

C20_Witness ==
  \E u, v \in Submitted :
    /\ config.cache_enabled
    /\ UnitFailed(u) /\ unit[u].resp = 4
    /\ StaleAtCheck(u)
    /\ cache[PathOf(u)] = unit[u].seen.file
    /\ UnitFailed(v) /\ FetchExhausted(v)
    /\ ~cache[PathOf(v)].exists

====
